---- MODULE Spec2Model ----
(***************************************************************************)
(* DataLens: the upload endpoint (src/app/api/upload/route.ts) and the     *)
(* page's Coordinator (src/app/page.tsx).                                  *)
(*                                                                         *)
(* Three specifications share this module:                                 *)
(*   SpecResolve  deepExtractAssetIds applied to bounded JSON values       *)
(*   SpecPost     one run of the upload endpoint's POST handler            *)
(*   Spec         the page's state under user events and call completions  *)
(***************************************************************************)
EXTENDS Integers, Sequences, FiniteSets, TLC

VARIABLES
    \* ---- SpecResolve: one call of deepExtractAssetIds
    rInput,          \* the value passed to deepExtractAssetIds
    rOutput,         \* the sequence it returned
    rDone,           \* whether the call has returned
    rRaised,         \* whether the call ended by throwing
    rCalls,          \* number of calls made on rInput
    \* ---- SpecPost: one run of POST
    pc,              \* "ready" | "fetching" | "done"
    apiKeySet,       \* LYZR_API_KEY is non-empty
    nFiles,          \* formData.getAll('files').length
    calls,           \* multipart field names of the upstream calls issued so far
    outcomes,        \* what each upstream call that has ended produced
    resp,            \* the NextResponse returned (NoResp until then)
    \* ---- Spec: the page component's state
    file, fileError, uploading, assetIds, analyzing, insights, pdfUrl,
    error, sessionId, showSample, activeAgentId,
    pendingUploads,  \* uploadFiles calls awaiting their result
    pendingAnalyzes, \* callAIAgent calls awaiting their result
    nUploads,        \* number of uploadFiles calls issued
    nAnalyzes,       \* number of callAIAgent calls issued
    lastOp,          \* history: the handler that ran last
    sinceReset,      \* history: handleReset ran and no file was selected since
    failedAssets     \* history: the assets sent by the analyze call that failed last

resolveVars == <<rInput, rOutput, rDone, rRaised, rCalls>>
postVars == <<pc, apiKeySet, nFiles, calls, outcomes, resp>>
pageVars == <<file, fileError, uploading, assetIds, analyzing, insights, pdfUrl,
              error, sessionId, showSample, activeAgentId, pendingUploads,
              pendingAnalyzes, nUploads, nAnalyzes, lastOp, sinceReset, failedAssets>>
vars == <<resolveVars, postVars, pageVars>>

(***************************************************************************)
(* JSON values (the `any` that JSON.parse returns), as a tagged union.     *)
(* A mapping keeps its keys in insertion order, as Object.keys does.       *)
(***************************************************************************)
JNull == [t |-> "null"]
JBool(b) == [t |-> "bool", b |-> b]
JNum(n) == [t |-> "num", n |-> n]
JStr(s) == [t |-> "str", s |-> s]
JArr(items) == [t |-> "arr", items |-> items]
JObj(keys, vals) == [t |-> "obj", keys |-> keys, vals |-> vals]

\* key in obj
HasKey(obj, key) == \E i \in 1..Len(obj.keys) : obj.keys[i] = key
\* obj[key], for a key that is present
Get(obj, key) == obj.vals[CHOOSE i \in 1..Len(obj.keys) : obj.keys[i] = key]
\* typeof v === 'object' (true of null too)
TypeofObject(v) == v.t \in {"null", "arr", "obj"}
\* A mutant of IsObjectLike: the guard forgets that typeof null is 'object'.
IsObjectLikeNoNullCheck(v) == v.t \in {"null", "arr", "obj"}

\* v && typeof v === 'object'
IsObjectLike(v) == v.t \in {"arr", "obj"}

\* Mutants of MaxDepth and MinBareLen: each bound off by one.
MaxDepthOneMore == 10 + 1
MinBareLenOneLess == 10 - 1

\* depth > 10 returns []
MaxDepth == 10
\* item.length >= 10 for a bare string of an array
MinBareLen == 10

idKeys == << "asset_id", "assetId", "asset_ids", "assetIds",
             "id", "_id", "file_id", "fileId",
             "upload_id", "uploadId", "document_id", "documentId" >>

\* The strings of a sequence of values that are non-empty, in order.
NonEmptyStrings(items) ==
    LET sel == SelectSeq(items, LAMBDA v : v.t = "str" /\ Len(v.s) > 0)
    IN  [i \in 1..Len(sel) |-> sel[i].s]

\* What one known key contributes (lines 39-48).
KeyIds(obj, key) ==
    IF ~HasKey(obj, key) THEN <<>>
    ELSE LET val == Get(obj, key)
         IN  IF val.t = "str" /\ Len(val.s) > 0 THEN <<val.s>>
             ELSE IF val.t = "arr" THEN NonEmptyStrings(val.items)
             ELSE <<>>

RECURSIVE KnownKeyIdsFrom(_, _)
KnownKeyIdsFrom(obj, k) ==
    IF k > Len(idKeys) THEN <<>>
    ELSE KeyIds(obj, idKeys[k]) \o KnownKeyIdsFrom(obj, k + 1)

\* A mutant of KnownKeyIds: the known-key pass ignores sequence values.
KnownKeyIdsTextOnly(obj) ==
    LET RECURSIVE From(_)
        From(k) ==
            IF k > Len(idKeys) THEN <<>>
            ELSE (IF HasKey(obj, idKeys[k]) /\ Get(obj, idKeys[k]).t = "str"
                     /\ Len(Get(obj, idKeys[k]).s) > 0
                  THEN <<Get(obj, idKeys[k]).s>> ELSE <<>>) \o From(k + 1)
    IN  From(1)

\* The known-key pass over a mapping (lines 38-49).
KnownKeyIds(obj) == KnownKeyIdsFrom(obj, 1)

RECURSIVE deepExtractAssetIds(_, _), ArrayIdsFrom(_, _, _), NestedIdsFrom(_, _, _)

\* A mutant of ArrayIdsFrom: an array does not count as a nesting level.
ArrayIdsFromSameDepth(items, i, depth) ==
    IF i > Len(items) THEN <<>>
    ELSE LET item == items[i]
             here == IF item.t = "str" /\ Len(item.s) >= MinBareLen THEN <<item.s>>
                     ELSE IF item.t # "str" /\ TypeofObject(item)
                          THEN deepExtractAssetIds(item, depth)
                     ELSE <<>>
         IN  here \o ArrayIdsFrom(items, i + 1, depth)

\* A mutant of ArrayIdsFrom: every non-empty bare text of an array is taken.
ArrayIdsFromAnyText(items, i, depth) ==
    IF i > Len(items) THEN <<>>
    ELSE LET item == items[i]
             here == IF item.t = "str" /\ Len(item.s) > 0 THEN <<item.s>>
                     ELSE IF item.t # "str" /\ TypeofObject(item)
                          THEN deepExtractAssetIds(item, depth + 1)
                     ELSE <<>>
         IN  here \o ArrayIdsFrom(items, i + 1, depth)

\* The loop over an array's items (lines 21-27), from item i on.
ArrayIdsFrom(items, i, depth) ==
    IF i > Len(items) THEN <<>>
    ELSE LET item == items[i]
             here == IF item.t = "str" /\ Len(item.s) >= MinBareLen THEN <<item.s>>
                     ELSE IF item.t # "str" /\ TypeofObject(item)
                          THEN deepExtractAssetIds(item, depth + 1)
                     ELSE <<>>
         IN  here \o ArrayIdsFrom(items, i + 1, depth)

\* The fallback loop over Object.keys(obj) (lines 53-58), from key i on.
NestedIdsFrom(obj, i, depth) ==
    IF i > Len(obj.keys) THEN <<>>
    ELSE LET val == obj.vals[i]
             here == IF IsObjectLike(val) THEN deepExtractAssetIds(val, depth + 1)
                     ELSE <<>>
         IN  here \o NestedIdsFrom(obj, i + 1, depth)

\* A mutant of deepExtractAssetIds: the nested values are searched whatever the
\* known-key pass found.
deepExtractAlwaysRecurses(obj, depth) ==
    IF depth > MaxDepth THEN <<>>
    ELSE IF ~IsObjectLike(obj) THEN <<>>
    ELSE IF obj.t = "arr" THEN ArrayIdsFrom(obj.items, 1, depth)
    ELSE KnownKeyIds(obj) \o NestedIdsFrom(obj, 1, depth)

deepExtractAssetIds(obj, depth) ==
    IF depth > MaxDepth THEN <<>>
    ELSE IF ~IsObjectLike(obj) THEN <<>>
    ELSE IF obj.t = "arr" THEN ArrayIdsFrom(obj.items, 1, depth)
    ELSE LET ids == KnownKeyIds(obj)
         IN  IF Len(ids) = 0 THEN NestedIdsFrom(obj, 1, depth) ELSE ids

RECURSIVE Raises(_, _)
\* Whether deepExtractAssetIds(obj, depth) throws: `key in obj` (line 39) is a
\* TypeError when a value that is neither a mapping nor an array gets past
\* the guard of line 18; the recursive calls are those of lines 25 and 56.
Raises(obj, depth) ==
    IF depth > MaxDepth THEN FALSE
    ELSE IF ~IsObjectLike(obj) THEN FALSE
    ELSE IF obj.t = "arr"
    THEN \E i \in 1..Len(obj.items) :
             /\ ~(obj.items[i].t = "str" /\ Len(obj.items[i].s) >= MinBareLen)
             /\ TypeofObject(obj.items[i])
             /\ Raises(obj.items[i], depth + 1)
    ELSE IF obj.t # "obj" THEN TRUE
    ELSE /\ Len(KnownKeyIds(obj)) = 0
         /\ \E i \in 1..Len(obj.keys) :
                IsObjectLike(obj.vals[i]) /\ Raises(obj.vals[i], depth + 1)

(***************************************************************************)
(* SpecResolve: inputs                                                     *)
(***************************************************************************)
\* Texts of length 0, 1, 1, 9, 10 and 11.
Texts == {"", "X", "Y", "id9chars_", "asset00010", "asset-00011"}
NonEmptyTexts == {s \in Texts : Len(s) > 0}

Obj1(k, v) == JObj(<<k>>, <<v>>)

ShapeAssetId(X) == Obj1("asset_id", JStr(X))
ShapeId(X) == Obj1("id", JStr(X))
ShapeResults(X) == Obj1("results", JArr(<<Obj1("asset_id", JStr(X))>>))
ShapeNested(X) == Obj1("data", Obj1("wrapper", Obj1("file", Obj1("id", JStr(X)))))
ShapeAssetIds(X, Y) == Obj1("asset_ids", JArr(<<JStr(X), JStr(Y)>>))
ShapeBare(X, Y) == JArr(<<JStr(X), JStr(Y)>>)

ShapeInputs ==
    {ShapeAssetId(X) : X \in Texts} \cup {ShapeId(X) : X \in Texts}
    \cup {ShapeResults(X) : X \in Texts} \cup {ShapeNested(X) : X \in Texts}
    \cup {ShapeAssetIds(X, Y) : X \in Texts, Y \in Texts}
    \cup {ShapeBare(X, Y) : X \in Texts, Y \in Texts}

ScalarInputs == {JNull, JBool(TRUE), JNum(0), JStr("asset00010"), JStr("")}

\* The same identifier under two known keys, twice in one sequence, and in
\* two nested records.
RepeatInputs ==
    {JObj(<<"asset_id", "id">>, <<JStr(X), JStr(X)>>) : X \in NonEmptyTexts}
    \cup {Obj1("files", JArr(<<Obj1("id", JStr(X)), Obj1("id", JStr(X))>>)) :
              X \in NonEmptyTexts}

\* How deep the nested responses go.
NestLevels == 15

RECURSIVE ChainFrom(_, _, _)
\* The mapping at nesting level `level` of a chain of mappings NestLevels deep
\* (the top-level value is level 0) whose level-d mapping holds X under "id".
ChainFrom(level, d, X) ==
    JObj((IF level = d THEN <<"id">> ELSE <<>>)
             \o (IF level < NestLevels THEN <<"next">> ELSE <<>>),
         (IF level = d THEN <<JStr(X)>> ELSE <<>>)
             \o (IF level < NestLevels THEN <<ChainFrom(level + 1, d, X)>> ELSE <<>>))

DeepAt(d) == ChainFrom(0, d, "asset00010")

DeepInputs == {DeepAt(d) : d \in 0..NestLevels}

\* A deep branch next to a shallow one: the chain hangs under "deep" with its
\* identifier in the level-d mapping, and a sibling holds another identifier.
ForkAt(d) ==
    JObj(<<"deep", "side">>,
         <<ChainFrom(1, d, "asset00010"), Obj1("record", Obj1("id", JStr("asset-00011")))>>)

RECURSIVE ArrayNest(_, _)
\* v wrapped in n sequences.
ArrayNest(n, v) == IF n = 0 THEN v ELSE JArr(<<ArrayNest(n - 1, v)>>)

\* The mapping {id: ...} at nesting level d, below d sequences.
ArrayDeepAt(d) == ArrayNest(d, Obj1("id", JStr("asset00010")))

ForkInputs == {ForkAt(d) : d \in 1..NestLevels} \cup {ArrayDeepAt(d) : d \in 0..NestLevels}

\* A mapping with the value v under the known key "id" and, in its nested
\* values, an identifier under a known key and a long bare text.
MixedAt(v) ==
    JObj(<<"data", "id", "files">>,
         <<Obj1("asset_id", JStr("asset-00011")), v, JArr(<<JStr("asset00010")>>)>>)

MixedInputs ==
    {MixedAt(v) : v \in {JStr(X) : X \in Texts} \cup {JNum(5), JNull, JArr(<<>>)}}
    \cup {Obj1("wrap", MixedAt(JStr(X))) : X \in Texts}
    \cup {JObj(<<"id", "asset_id", "nested">>,
                <<JStr(X), JArr(<<JStr(Y), JStr("")>>), Obj1("file_id", JStr("asset-00011"))>>) :
              X \in Texts, Y \in Texts}

\* Values that hold no text at all.
TextFreeInputs ==
    { JArr(<<>>), JObj(<<>>, <<>>), JArr(<<JNull, JNum(1), JBool(FALSE), JArr(<<>>)>>),
      Obj1("id", JNum(5)), Obj1("asset_ids", JArr(<<JNull, JNum(7)>>)),
      Obj1("data", JArr(<<JNull, Obj1("id", JNull)>>)) }

\* Short and long texts as bare elements, at the top and under an unknown key.
BareInputs ==
    {Obj1("results", JArr(<<JStr(X), JStr(Y)>>)) : X \in Texts, Y \in Texts}
    \cup {JArr(<<JArr(<<JStr(X)>>), JStr(Y)>>) : X \in Texts, Y \in Texts}

ResolveInputs ==
    ShapeInputs \cup ScalarInputs \cup RepeatInputs \cup DeepInputs
    \cup TextFreeInputs \cup BareInputs \cup ForkInputs \cup MixedInputs

ResolveInit ==
    /\ rInput \in ResolveInputs
    /\ rOutput = <<>>
    /\ rDone = FALSE
    /\ rRaised = FALSE
    /\ rCalls = 0

ResolveIdle ==
    /\ rInput = JNull
    /\ rOutput = <<>>
    /\ rDone = FALSE
    /\ rRaised = FALSE
    /\ rCalls = 0

\* Most calls of deepExtractAssetIds made on one value.
MaxCalls == 2

\* A mutant of Resolve: the identifiers are collected in an array that outlives
\* the call.
ResolveAccumulates ==
    /\ rCalls < MaxCalls
    /\ rRaised' = Raises(rInput, 0)
    /\ rOutput' = IF Raises(rInput, 0) THEN rOutput
                  ELSE rOutput \o deepExtractAssetIds(rInput, 0)
    /\ rDone' = TRUE
    /\ rCalls' = rCalls + 1
    /\ UNCHANGED <<rInput, postVars, pageVars>>

\* const ids = deepExtractAssetIds(data): depth defaults to 0. `ids` is local to
\* the call (line 16) and obj is only read.
Resolve ==
    /\ rCalls < MaxCalls
    /\ rRaised' = Raises(rInput, 0)
    /\ rOutput' = IF Raises(rInput, 0) THEN <<>> ELSE deepExtractAssetIds(rInput, 0)
    /\ rDone' = TRUE
    /\ rCalls' = rCalls + 1
    /\ UNCHANGED <<rInput, postVars, pageVars>>

(***************************************************************************)
(* The upload endpoint's POST (route.ts lines 64-242)                      *)
(***************************************************************************)
JUndefined == [t |-> "undefined"]

\* A JS value used as a condition: a || b, a ? b : c.
Truthy(v) ==
    CASE v.t = "str" -> Len(v.s) > 0
      [] v.t = "num" -> v.n # 0
      [] v.t = "bool" -> v.b
      [] v.t \in {"arr", "obj"} -> TRUE
      [] OTHER -> FALSE

\* data.key, for a value that is not null: undefined unless a mapping holds the key.
Prop(v, key) == IF v.t = "obj" /\ HasKey(v, key) THEN Get(v, key) ELSE JUndefined

\* Bodies the upstream may send: the text and, where the text is JSON, its parse.
\* Every text is shorter than the 300 and 500 characters substring() keeps.
UpstreamBodies == {
    [text |-> "{\"asset_id\":\"asset00010\"}", json |-> TRUE,
     value |-> ShapeAssetId("asset00010")],
    [text |-> "{\"results\":[{\"asset_id\":\"asset-00011\"}]}", json |-> TRUE,
     value |-> ShapeResults("asset-00011")],
    [text |-> "[null,\"asset00010\"]", json |-> TRUE,
     value |-> JArr(<<JNull, JStr("asset00010")>>)],
    [text |-> "{\"status\":\"ok\"}", json |-> TRUE,
     value |-> Obj1("status", JStr("ok"))],
    [text |-> "{\"detail\":\"field required\"}", json |-> TRUE,
     value |-> Obj1("detail", JStr("field required"))],
    [text |-> "null", json |-> TRUE, value |-> JNull],
    [text |-> "Bad Gateway", json |-> FALSE, value |-> JUndefined] }

UpstreamStatuses == {200, 201, 400, 401, 422, 500}

\* response.ok
Ok(status) == status >= 200 /\ status <= 299

\* try { data = JSON.parse(responseText) } catch { data = { _raw: responseText } }
ParseBody(body) == IF body.json THEN body.value ELSE Obj1("_raw", JStr(body.text))

\* for (const fieldName of ['file', 'files'])
FieldNamesSwapped == <<"files", "file">>

FieldNames == <<"file", "files">>

\* A mutant of LoopDecision: every non-2xx status tries the next field name.
LoopDecisionAnyError(status, data) ==
    IF Ok(status) /\ Len(deepExtractAssetIds(data, 0)) > 0 THEN "break"
    ELSE IF ~Ok(status) THEN "continue"
    ELSE "break"

\* What the loop body does after parsing (lines 139-151).
LoopDecision(status, data) ==
    IF Ok(status) /\ Len(deepExtractAssetIds(data, 0)) > 0 THEN "break"
    ELSE IF status = 422 \/ status = 400 THEN "continue"
    ELSE "break"

NoResp == [status |-> 0]

\* The early returns and the catch block: success false, no asset IDs.
FailResponse(status, total, failed, message, err) ==
    [status |-> status, success |-> FALSE, asset_ids |-> <<>>,
     total_files |-> JNum(total), successful_uploads |-> 0,
     failed_uploads |-> failed, message |-> message, error |-> err]

MissingKeyResponse ==
    FailResponse(500, 0, 0, "LYZR_API_KEY not configured",
                 JStr("LYZR_API_KEY not configured on server"))

NoFilesResponse ==
    FailResponse(400, 0, 0, "No files provided", JStr("No files provided"))

\* catch (error): error.message of whatever was thrown.
CatchResponse(what) ==
    FailResponse(500, 0, 0, "Server error during upload", JStr(what))

\* data.results || data.files || (Array.isArray(data) ? data : null)
ResultArrays(data) ==
    IF Truthy(Prop(data, "results")) THEN Prop(data, "results")
    ELSE IF Truthy(Prop(data, "files")) THEN Prop(data, "files")
    ELSE IF data.t = "arr" THEN data
    ELSE JNull

\* Lines 177-184 raise a TypeError: data is null (data.results), or the
\* array mapped over holds a null (r.asset_id).
ConstructionThrows(data) ==
    \/ data.t = "null"
    \/ /\ ResultArrays(data).t = "arr"
       /\ \E i \in 1..Len(ResultArrays(data).items) :
              ResultArrays(data).items[i].t = "null"

\* data?.detail || data?.message || data?.error || responseText.substring(0, 300)
UpstreamError(data, text) ==
    IF Truthy(Prop(data, "detail")) THEN Prop(data, "detail")
    ELSE IF Truthy(Prop(data, "message")) THEN Prop(data, "message")
    ELSE IF Truthy(Prop(data, "error")) THEN Prop(data, "error")
    ELSE JStr(text)

\* A mutant of OkResponse: a 2xx upstream response always reports success.
OkResponseAlwaysSuccess(data, n) ==
    LET ids == deepExtractAssetIds(data, 0)
    IN  [status |-> 200, success |-> TRUE, asset_ids |-> ids,
         total_files |-> JNum(n), successful_uploads |-> Len(ids),
         failed_uploads |-> 0, message |-> "Successfully uploaded",
         error |-> JUndefined]

\* The 2xx response (lines 193-209); its files and _debug fields are left out.
OkResponse(data, n) ==
    LET ids == deepExtractAssetIds(data, 0)
    IN  [status |-> 200,
         success |-> Len(ids) > 0,
         asset_ids |-> ids,
         total_files |-> IF Truthy(Prop(data, "total_files"))
                         THEN Prop(data, "total_files") ELSE JNum(n),
         successful_uploads |-> Len(ids),
         failed_uploads |-> IF Len(ids) > 0 THEN 0 ELSE n,
         message |-> IF Len(ids) > 0
                     THEN "Successfully uploaded " \o ToString(Len(ids)) \o " file(s)"
                     ELSE "Upload completed but no asset IDs found in response",
         error |-> JUndefined]

\* The non-2xx response (lines 211-224).
UpstreamFailResponse(status, data, text, n) ==
    FailResponse(status, n, n, "Upload failed with status " \o ToString(status),
                 UpstreamError(data, text))

\* What POST returns once the loop has ended on this upstream response (lines 171-241).
\* The `if (!response)` return of lines 154-169 cannot be taken: the loop body
\* runs at least once and assigns response or throws.
BuildResponse(status, body, n) ==
    LET data == ParseBody(body)
    IN  IF Ok(status)
        THEN IF ConstructionThrows(data) THEN CatchResponse("TypeError")
             ELSE OkResponse(data, n)
        ELSE UpstreamFailResponse(status, data, body.text, n)

\* Most files one request carries.
MaxFiles == 2

PostInit ==
    /\ pc = "ready"
    /\ apiKeySet \in BOOLEAN
    /\ nFiles \in 0..MaxFiles
    /\ calls = <<>>
    /\ outcomes = <<>>
    /\ resp = NoResp

PostIdle ==
    /\ pc = "idle"
    /\ apiKeySet = FALSE
    /\ nFiles = 0
    /\ calls = <<>>
    /\ outcomes = <<>>
    /\ resp = NoResp

\* if (!LYZR_API_KEY) return 500
PostMissingKey ==
    /\ pc = "ready"
    /\ ~apiKeySet
    /\ resp' = MissingKeyResponse
    /\ pc' = "done"
    /\ UNCHANGED <<apiKeySet, nFiles, calls, outcomes, resolveVars, pageVars>>

\* await request.formData() rejects: the request body is not form data.
PostFormDataThrows ==
    /\ pc = "ready"
    /\ apiKeySet
    /\ resp' = CatchResponse("formData failed")
    /\ pc' = "done"
    /\ UNCHANGED <<apiKeySet, nFiles, calls, outcomes, resolveVars, pageVars>>

\* if (files.length === 0) return 400
PostNoFiles ==
    /\ pc = "ready"
    /\ apiKeySet
    /\ nFiles = 0
    /\ resp' = NoFilesResponse
    /\ pc' = "done"
    /\ UNCHANGED <<apiKeySet, nFiles, calls, outcomes, resolveVars, pageVars>>

\* A mutant of PostBegin: the upload proceeds without the API key check.
PostBeginNoKeyCheck ==
    /\ pc = "ready"
    /\ nFiles > 0
    /\ calls' = <<FieldNames[1]>>
    /\ pc' = "fetching"
    /\ UNCHANGED <<apiKeySet, nFiles, outcomes, resp, resolveVars, pageVars>>

\* The first iteration's fetch is issued.
PostBegin ==
    /\ pc = "ready"
    /\ apiKeySet
    /\ nFiles > 0
    /\ calls' = <<FieldNames[1]>>
    /\ pc' = "fetching"
    /\ UNCHANGED <<apiKeySet, nFiles, outcomes, resp, resolveVars, pageVars>>

\* The outstanding fetch resolves: parse, decide, and either issue the next
\* iteration's fetch or leave the loop and return.
UpstreamResponds(status, body) ==
    /\ pc = "fetching"
    /\ outcomes' = Append(outcomes, [kind |-> "response", status |-> status, body |-> body])
    /\ IF LoopDecision(status, ParseBody(body)) = "continue" /\ Len(calls) < Len(FieldNames)
       THEN /\ calls' = Append(calls, FieldNames[Len(calls) + 1])
            /\ UNCHANGED <<pc, resp>>
       ELSE /\ resp' = BuildResponse(status, body, nFiles)
            /\ pc' = "done"
            /\ UNCHANGED calls
    /\ UNCHANGED <<apiKeySet, nFiles, resolveVars, pageVars>>

\* The outstanding fetch (or response.text()) rejects: the catch block returns.
UpstreamThrows ==
    /\ pc = "fetching"
    /\ outcomes' = Append(outcomes, [kind |-> "throw"])
    /\ resp' = CatchResponse("fetch failed")
    /\ pc' = "done"
    /\ UNCHANGED <<apiKeySet, nFiles, calls, resolveVars, pageVars>>

PostNext ==
    \/ PostMissingKey
    \/ PostFormDataThrows
    \/ PostNoFiles
    \/ PostBegin
    \/ \E status \in UpstreamStatuses, body \in UpstreamBodies : UpstreamResponds(status, body)
    \/ UpstreamThrows

(***************************************************************************)
(* The page component (page.tsx lines 497-667 and the controls it renders) *)
(***************************************************************************)
\* A File: its name split at the dots, and its MIME type.
File(parts, type) == [t |-> "file", name |-> parts, type |-> type]

\* One file accepted by its extension alone, one by its MIME type alone.
ValidFiles == { File(<<"q3", "XLSX">>, ""),
                File(<<"export", "txt">>, "application/vnd.ms-excel") }
InvalidFiles == { File(<<"notes", "pdf">>, "application/pdf") }
\* The files the user may drop or pick.
AllFiles == ValidFiles \cup InvalidFiles

\* String.prototype.toLowerCase on the extensions used here.
ToLowerCase(s) ==
    CASE s = "XLSX" -> "xlsx"
      [] s = "CSV" -> "csv"
      [] s = "XLS" -> "xls"
      [] s = "PDF" -> "pdf"
      [] OTHER -> s

\* name.split('.').pop()?.toLowerCase() ?? ''
getFileExtension(name) == IF Len(name) = 0 THEN "" ELSE ToLowerCase(name[Len(name)])

ACCEPTED_EXTENSIONS == {"xlsx", "xls", "csv"}

acceptedTypes == { "application/vnd.openxmlformats-officedocument.spreadsheetml.sheet",
                   "application/vnd.ms-excel",
                   "text/csv" }

\* A mutant of validateFile: the MIME type is not looked at.
validateFileExtensionOnly(f) == getFileExtension(f.name) \in ACCEPTED_EXTENSIONS

\* validateFile's verdict (line 536).
validateFile(f) ==
    ~(getFileExtension(f.name) \notin ACCEPTED_EXTENSIONS /\ f.type \notin acceptedTypes)

AGENT_ID == "6996cd83744b96afe6ba69ee"

\* The asset IDs the upload service gives a file.
AssetIdsOf(f) == <<"asset-" \o f.name[1]>>

\* What uploadFiles may resolve to for a file.
UploadResults(f) == {
    [success |-> TRUE, asset_ids |-> AssetIdsOf(f), error |-> JUndefined],
    [success |-> FALSE, asset_ids |-> <<>>, error |-> JStr("Upload failed with status 500")],
    [success |-> TRUE, asset_ids |-> <<>>, error |-> JUndefined] }

\* JSON.parse on the texts an agent result carries here: whether it parses, and to what.
ParseJson(text) ==
    CASE text = "{\"executive_summary\":\"ok\"}" ->
             [ok |-> TRUE, value |-> Obj1("executive_summary", JStr("ok"))]
      [] text = "42" -> [ok |-> TRUE, value |-> JNum(42)]
      [] text = "null" -> [ok |-> TRUE, value |-> JNull]
      [] OTHER -> [ok |-> FALSE, value |-> JUndefined]

AgentResult(success, session, result, message, artifacts, err) ==
    [success |-> success, session_id |-> session, result |-> result,
     message |-> message, artifact_files |-> artifacts, error |-> err]

Artifact(url) == Obj1("file_url", JStr(url))

\* What callAIAgent may resolve to.
AgentResults == {
    AgentResult(TRUE, JStr("s1"), Obj1("executive_summary", JStr("fine")), JUndefined,
                JArr(<<Artifact("U1"), Artifact("U2")>>), JUndefined),
    AgentResult(TRUE, JUndefined, JStr("not json"), JUndefined, JUndefined, JUndefined),
    AgentResult(FALSE, JStr("s1"), JUndefined, JStr("M"), JUndefined, JStr("X")),
    AgentResult(FALSE, JUndefined, JUndefined, JUndefined, JUndefined, JUndefined) }

\* a ?? b
Nullish(v) == v.t \in {"null", "undefined"}

\* A mutant of ParsedResult: a text that does not parse is stored as it is.
ParsedResultNoWrap(result) ==
    IF result.t = "str" /\ ParseJson(result.s).ok THEN ParseJson(result.s).value
    ELSE result

\* Lines 625-632: a text result is parsed, or wrapped as the summary.
ParsedResult(result) ==
    IF result.t = "str"
    THEN IF ParseJson(result.s).ok THEN ParseJson(result.s).value
         ELSE Obj1("executive_summary", result)
    ELSE result

\* Lines 636-640: the URL setPdfUrl is called with, or undefined when it is not called.
ReportUrl(artifacts) ==
    IF artifacts.t = "arr" /\ Len(artifacts.items) > 0
    THEN LET url == Prop(artifacts.items[1], "file_url")
         IN  IF Truthy(url) THEN url ELSE JUndefined
    ELSE JUndefined

\* Line 642: result?.error ?? result?.response?.message ?? 'Analysis failed...'
AnalysisError(result) ==
    IF ~Nullish(result.error) THEN result.error
    ELSE IF ~Nullish(result.message) THEN result.message
    ELSE JStr("Analysis failed. Please try again.")

\* InsightsDisplay, lines 333-337: Array.isArray(data?.key) ? data.key : []
ListField(data, key) ==
    IF Prop(data, key).t = "arr" THEN Prop(data, key).items ELSE <<>>

\* InsightsDisplay, line 387: data?.executive_summary ?? ''
SummaryField(data) ==
    IF Nullish(Prop(data, "executive_summary")) THEN JStr("")
    ELSE Prop(data, "executive_summary")

\* What InsightsDisplay derives from the insights it is given (lines 333-337, 387).
InsightsView(data) ==
    [executive_summary |-> SummaryField(data),
     key_findings      |-> ListField(data, "key_findings"),
     data_patterns     |-> ListField(data, "data_patterns"),
     anomalies         |-> ListField(data, "anomalies"),
     recommendations   |-> ListField(data, "recommendations"),
     key_metrics       |-> ListField(Prop(data, "statistics"), "key_metrics")]

\* renderMarkdown (lines 96-100): a falsy text renders nothing, any other value
\* has split('\n') called on it, which only a text has.
RenderRaises(data) ==
    Truthy(SummaryField(data)) /\ SummaryField(data).t # "str"

\* The insights are displayed (lines 670, 860), the sample switch being off.
Displayed(data) == Truthy(data)

\* Most uploadFiles calls and most callAIAgent calls one run issues.
MaxUploads == 2
MaxAnalyzes == 2

PageInit ==
    /\ file = JNull
    /\ fileError = JNull
    /\ uploading = FALSE
    /\ assetIds = <<>>
    /\ analyzing = FALSE
    /\ insights = JNull
    /\ pdfUrl = JNull
    /\ error = JNull
    /\ sessionId = JNull
    /\ showSample = FALSE
    /\ activeAgentId = JNull
    /\ pendingUploads = {}
    /\ pendingAnalyzes = {}
    /\ nUploads = 0
    /\ nAnalyzes = 0
    /\ lastOp = "init"
    /\ sinceReset = FALSE
    /\ failedAssets = <<>>

\* handleDrop / handleInputChange with a file validateFile rejects (line 548).
SelectInvalidFile(f) ==
    /\ ~validateFile(f)
    /\ fileError' = JStr("Unsupported format. Please upload .xlsx or .csv files only.")
    /\ lastOp' = "reject"
    /\ sinceReset' = FALSE
    /\ UNCHANGED <<file, uploading, assetIds, analyzing, insights, pdfUrl, error,
                   sessionId, showSample, activeAgentId, pendingUploads,
                   pendingAnalyzes, nUploads, nAnalyzes>>
    /\ UNCHANGED <<resolveVars, postVars, failedAssets>>

\* handleFileSelect up to its await (lines 548-559).
SelectValidFile(f) ==
    /\ validateFile(f)
    /\ nUploads < MaxUploads
    /\ file' = f
    /\ fileError' = JNull
    /\ error' = JNull
    /\ insights' = JNull
    /\ pdfUrl' = JNull
    /\ assetIds' = <<>>
    /\ uploading' = TRUE
    /\ nUploads' = nUploads + 1
    /\ pendingUploads' = pendingUploads \cup {[id |-> nUploads + 1, file |-> f]}
    /\ lastOp' = "select"
    /\ sinceReset' = FALSE
    /\ UNCHANGED <<analyzing, sessionId, showSample, activeAgentId, pendingAnalyzes,
                   nAnalyzes>>
    /\ UNCHANGED <<resolveVars, postVars, failedAssets>>

\* handleFileSelect after uploadFiles resolves (lines 560-568).
UploadResolves(call, result) ==
    /\ call \in pendingUploads
    /\ pendingUploads' = pendingUploads \ {call}
    /\ IF result.success /\ Len(result.asset_ids) > 0
       THEN /\ assetIds' = result.asset_ids
            /\ UNCHANGED fileError
       ELSE /\ fileError' = IF Nullish(result.error)
                            THEN JStr("Upload failed. Please try again.")
                            ELSE result.error
            /\ UNCHANGED assetIds
    /\ uploading' = FALSE
    /\ lastOp' = "uploadDone"
    /\ UNCHANGED <<file, analyzing, insights, pdfUrl, error, sessionId, showSample,
                   activeAgentId, pendingAnalyzes, nUploads, nAnalyzes, sinceReset>>
    /\ UNCHANGED <<resolveVars, postVars, failedAssets>>

\* handleFileSelect after uploadFiles rejects (lines 565-568).
UploadRejects(call) ==
    /\ call \in pendingUploads
    /\ pendingUploads' = pendingUploads \ {call}
    /\ fileError' = JStr("Upload failed. Please check your connection and try again.")
    /\ uploading' = FALSE
    /\ lastOp' = "uploadDone"
    /\ UNCHANGED <<file, assetIds, analyzing, insights, pdfUrl, error, sessionId,
                   showSample, activeAgentId, pendingAnalyzes, nUploads, nAnalyzes,
                   sinceReset>>
    /\ UNCHANGED <<resolveVars, postVars, failedAssets>>

\* handleAnalyze up to its await (lines 605-618).
handleAnalyze(op) ==
    /\ Len(assetIds) # 0
    /\ nAnalyzes < MaxAnalyzes
    /\ analyzing' = TRUE
    /\ error' = JNull
    /\ insights' = JNull
    /\ pdfUrl' = JNull
    /\ activeAgentId' = JStr(AGENT_ID)
    /\ nAnalyzes' = nAnalyzes + 1
    /\ pendingAnalyzes' = pendingAnalyzes \cup {[id |-> nAnalyzes + 1, assets |-> assetIds]}
    /\ lastOp' = op
    /\ UNCHANGED <<file, fileError, uploading, assetIds, sessionId, showSample,
                   pendingUploads, nUploads, sinceReset>>
    /\ UNCHANGED <<resolveVars, postVars, failedAssets>>

\* The Analyze Data button (lines 781-786), enabled unless disabled={...}.
ClickAnalyze ==
    /\ ~(Len(assetIds) = 0 \/ analyzing \/ uploading)
    /\ handleAnalyze("analyze")

\* The Retry button (lines 832-849), rendered when error && !analyzing.
ClickRetry ==
    /\ Truthy(error) /\ ~analyzing
    /\ ~(Len(assetIds) = 0)
    /\ handleAnalyze("retry")

\* handleAnalyze after callAIAgent resolves (lines 620-650).
AnalyzeResolves(call, result) ==
    /\ call \in pendingAnalyzes
    /\ pendingAnalyzes' = pendingAnalyzes \ {call}
    /\ sessionId' = IF Truthy(result.session_id) THEN result.session_id ELSE sessionId
    /\ IF result.success
       THEN /\ insights' = ParsedResult(result.result)
            /\ pdfUrl' = IF ReportUrl(result.artifact_files) = JUndefined THEN pdfUrl
                         ELSE ReportUrl(result.artifact_files)
            /\ UNCHANGED error
       ELSE /\ error' = AnalysisError(result)
            /\ UNCHANGED <<insights, pdfUrl>>
    /\ analyzing' = FALSE
    /\ activeAgentId' = JNull
    /\ lastOp' = "analyzeDone"
    /\ failedAssets' = IF result.success THEN failedAssets ELSE call.assets
    /\ UNCHANGED <<file, fileError, uploading, assetIds, showSample, pendingUploads,
                   nUploads, nAnalyzes, sinceReset>>
    /\ UNCHANGED <<resolveVars, postVars>>

\* handleAnalyze after callAIAgent rejects (lines 644-650).
AnalyzeRejects(call) ==
    /\ call \in pendingAnalyzes
    /\ pendingAnalyzes' = pendingAnalyzes \ {call}
    /\ error' = JStr("Network error. Please check your connection and try again.")
    /\ analyzing' = FALSE
    /\ activeAgentId' = JNull
    /\ lastOp' = "analyzeDone"
    /\ failedAssets' = call.assets
    /\ UNCHANGED <<file, fileError, uploading, assetIds, insights, pdfUrl, sessionId,
                   showSample, pendingUploads, nUploads, nAnalyzes, sinceReset>>
    /\ UNCHANGED <<resolveVars, postVars>>

\* A mutant of handleReset: the session identifier and the in-flight flags are kept.
handleResetKeepsSession ==
    /\ file' = JNull
    /\ fileError' = JNull
    /\ assetIds' = <<>>
    /\ insights' = JNull
    /\ pdfUrl' = JNull
    /\ error' = JNull
    /\ showSample' = FALSE
    /\ activeAgentId' = JNull
    /\ lastOp' = "reset"
    /\ sinceReset' = TRUE
    /\ UNCHANGED <<analyzing, uploading, sessionId, pendingUploads, pendingAnalyzes,
                   nUploads, nAnalyzes>>
    /\ UNCHANGED <<resolveVars, postVars, failedAssets>>

\* handleReset (lines 653-667): the calls in flight are not aborted.
handleReset ==
    /\ file' = JNull
    /\ fileError' = JNull
    /\ assetIds' = <<>>
    /\ insights' = JNull
    /\ pdfUrl' = JNull
    /\ error' = JNull
    /\ analyzing' = FALSE
    /\ uploading' = FALSE
    /\ showSample' = FALSE
    /\ activeAgentId' = JNull
    /\ sessionId' = JNull
    /\ lastOp' = "reset"
    /\ sinceReset' = TRUE
    /\ UNCHANGED <<pendingUploads, pendingAnalyzes, nUploads, nAnalyzes>>
    /\ UNCHANGED <<resolveVars, postVars, failedAssets>>

\* The New Analysis button (lines 799-810): rendered when file || insights,
\* disabled while analyzing.
ClickNewAnalysis ==
    /\ file # JNull \/ Truthy(insights)
    /\ ~analyzing
    /\ handleReset

\* The X button of the file card (lines 735, 753-761): rendered when file.
ClickFileCardX ==
    /\ file # JNull
    /\ handleReset

\* The Sample Data switch (lines 688-692).
ToggleSample ==
    /\ showSample' = ~showSample
    /\ lastOp' = "toggle"
    /\ UNCHANGED <<file, fileError, uploading, assetIds, analyzing, insights, pdfUrl,
                   error, sessionId, activeAgentId, pendingUploads, pendingAnalyzes,
                   nUploads, nAnalyzes, sinceReset>>
    /\ UNCHANGED <<resolveVars, postVars, failedAssets>>

PageNext ==
    \/ \E f \in AllFiles : SelectInvalidFile(f)
    \/ \E f \in AllFiles : SelectValidFile(f)
    \/ \E call \in pendingUploads : \E result \in UploadResults(call.file) :
           UploadResolves(call, result)
    \/ \E call \in pendingUploads : UploadRejects(call)
    \/ ClickAnalyze
    \/ ClickRetry
    \/ \E call \in pendingAnalyzes : \E result \in AgentResults : AnalyzeResolves(call, result)
    \/ \E call \in pendingAnalyzes : AnalyzeRejects(call)
    \/ ClickNewAnalysis
    \/ ClickFileCardX
    \/ ToggleSample

(***************************************************************************)
(* One analyze call in flight, and the results the agent may give it       *)
(***************************************************************************)
Absent == [t |-> "absent"]

\* The object with the given <<key, value>> pairs, those of an absent value left out.
MkObj(pairs) ==
    LET sel == SelectSeq(pairs, LAMBDA p : p[2] # Absent)
    IN  JObj([i \in 1..Len(sel) |-> sel[i][1]], [i \in 1..Len(sel) |-> sel[i][2]])

Finding == MkObj(<<<<"finding", JStr("F")>>, <<"importance", JStr("high")>>>>)

SummaryValues == {Absent, JStr("S"), JNum(42), JNull}
FindingsValues == {Absent, JArr(<<Finding>>), JStr("oops")}
PatternsValues == {Absent, JArr(<<Obj1("pattern", JStr("P"))>>), JNum(7)}
AnomaliesValues == {Absent, JArr(<<Obj1("anomaly", JStr("A"))>>)}
RecommendationsValues == {Absent, JBool(TRUE)}
StatisticsValues == {Absent, JStr("stats"), Obj1("key_metrics", JStr("m")),
                     Obj1("key_metrics", JArr(<<JStr("mean 4.2")>>))}

\* Structured results, every field present or absent, well typed or not.
StructuredResults ==
    { MkObj(<<<<"executive_summary", s>>, <<"key_findings", k>>, <<"data_patterns", p>>,
              <<"anomalies", a>>, <<"recommendations", r>>, <<"statistics", st>>>>) :
        s \in SummaryValues, k \in FindingsValues, p \in PatternsValues,
        a \in AnomaliesValues, r \in RecommendationsValues, st \in StatisticsValues }

TextResults == { JStr("not json"), JStr(""), JStr("## Summary"), JStr("42"), JStr("null"),
                 JStr("{\"executive_summary\":\"ok\"}") }

ArtifactLists == { JUndefined, JArr(<<>>), JArr(<<Artifact("U1"), Artifact("U2")>>),
                   JArr(<<Obj1("name", JStr("r.pdf")), Artifact("U2")>>) }

\* What callAIAgent may resolve to, over the shapes of response.result.
InsightInputs ==
    AgentResults
    \cup { AgentResult(TRUE, JStr("s1"), r, JUndefined, a, JUndefined) :
             r \in StructuredResults \cup TextResults \cup {JUndefined},
             a \in ArtifactLists }

\* The page after a file was selected and uploaded and Analyze Data was clicked
\* (SelectValidFile, UploadResolves, ClickAnalyze).
AnalysisInFlight ==
    /\ file \in ValidFiles
    /\ fileError = JNull
    /\ uploading = FALSE
    /\ assetIds = AssetIdsOf(file)
    /\ analyzing = TRUE
    /\ insights = JNull
    /\ pdfUrl = JNull
    /\ error = JNull
    /\ sessionId = JNull
    /\ showSample = FALSE
    /\ activeAgentId = JStr(AGENT_ID)
    /\ pendingUploads = {}
    /\ pendingAnalyzes = {[id |-> 1, assets |-> assetIds]}
    /\ nUploads = 1
    /\ nAnalyzes = 1
    /\ lastOp = "analyze"
    /\ sinceReset = FALSE
    /\ failedAssets = <<>>

(***************************************************************************)
(* The specifications                                                      *)
(***************************************************************************)
Init == ResolveIdle /\ PostIdle /\ PageInit
Next == PageNext
Spec == Init /\ [][Next]_vars

InitPost == ResolveIdle /\ PostInit /\ PageInit
SpecPost == InitPost /\ [][PostNext]_vars

InitResolve == ResolveInit /\ PostIdle /\ PageInit
NextResolve == Resolve
SpecResolve == InitResolve /\ [][NextResolve]_vars

InitInsights == ResolveIdle /\ PostIdle /\ AnalysisInFlight
NextInsights ==
    \/ \E call \in pendingAnalyzes : \E result \in InsightInputs :
           AnalyzeResolves(call, result)
    \/ \E call \in pendingAnalyzes : AnalyzeRejects(call)
SpecInsights == InitInsights /\ [][NextInsights]_vars

(***************************************************************************)
(* The upload endpoint's response and its field-name retry (SpecPost)      *)
(***************************************************************************)
\* The first upstream call has ended with a response.
FirstResponded == Len(outcomes) >= 1 /\ outcomes[1].kind = "response"

FirstIds == deepExtractAssetIds(ParseBody(outcomes[1].body), 0)

LastOutcome == outcomes[Len(outcomes)]

\* C1: every response body POST returns, on every path, has
\* success = (asset_ids is non-empty).
C1_SuccessIffAssetIds ==
    pc = "done" => (resp.success <=> Len(resp.asset_ids) > 0)

\* C1 witness: a 2xx upstream response with identifiers was answered with success.
C1_Witness ==
    /\ pc = "done" /\ Len(outcomes) >= 1
    /\ LastOutcome.kind = "response" /\ Ok(LastOutcome.status)
    /\ resp.success /\ Len(resp.asset_ids) > 0

\* C7: when the first attempt returns 2xx but resolves zero identifiers, a
\* second attempt with field name 'files' is made.
C7_RetryOnEmptyOk ==
    (FirstResponded /\ Ok(outcomes[1].status) /\ Len(FirstIds) = 0)
        => (Len(calls) >= 2 /\ calls[2] = "files")

\* C8: a second attempt is made when the first returns 400 or 422, and none is
\* made when it returns another non-2xx status or 2xx with an identifier.
C8_RetryOnlyOn400Or422 ==
    FirstResponded =>
        LET st == outcomes[1].status
        IN  /\ (st = 400 \/ st = 422) => (Len(calls) = 2 /\ calls[2] = "files")
            /\ (~Ok(st) /\ st # 400 /\ st # 422) => Len(calls) = 1
            /\ (Ok(st) /\ Len(FirstIds) > 0) => Len(calls) = 1

\* C8 witness: the first attempt returned 422 and the second was issued.
C8_Witness ==
    FirstResponded /\ outcomes[1].status = 422 /\ calls = <<"file", "files">>

\* C9: one POST makes at most two upstream calls, 'file' then 'files', and the
\* response it returns is built from the last upstream call it made.
C9_TwoAttemptsLastWins ==
    /\ Len(calls) <= 2
    /\ Len(calls) >= 1 => calls[1] = "file"
    /\ Len(calls) >= 2 => calls[2] = "files"
    /\ (pc = "done" /\ Len(calls) >= 1) =>
           /\ Len(outcomes) = Len(calls)
           /\ LastOutcome.kind = "throw" => resp = CatchResponse("fetch failed")
           /\ LastOutcome.kind = "response" =>
                  resp = BuildResponse(LastOutcome.status, LastOutcome.body, nFiles)

\* C9 witness: the first attempt failed with 400, the second returned 2xx with
\* an identifier, and the response reports the second.
C9_Witness ==
    /\ pc = "done" /\ Len(outcomes) = 2
    /\ outcomes[1].kind = "response" /\ outcomes[1].status = 400
    /\ LastOutcome.kind = "response" /\ Ok(LastOutcome.status)
    /\ resp.status = 200 /\ resp.success

(***************************************************************************)
(* deepExtractAssetIds on the documented shapes (SpecResolve)              *)
(***************************************************************************)
\* The shapes whose identifiers sit under a known key.
KeyedShapesResolve ==
    \A X \in NonEmptyTexts, Y \in NonEmptyTexts :
        /\ rInput = ShapeAssetId(X) => rOutput = <<X>>
        /\ rInput = ShapeId(X) => rOutput = <<X>>
        /\ rInput = ShapeResults(X) => rOutput = <<X>>
        /\ rInput = ShapeNested(X) => rOutput = <<X>>
        /\ rInput = ShapeAssetIds(X, Y) => rOutput = <<X, Y>>

\* C10 as stated: for all non-empty texts X and Y, resolve returns [X] for
\* {asset_id: X}, {id: X}, {results: [{asset_id: X}]} and
\* {data: {wrapper: {file: {id: X}}}}, and [X, Y] for {asset_ids: [X, Y]} and
\* for the bare array [X, Y].
C10_Original ==
    rDone =>
        /\ KeyedShapesResolve
        /\ \A X \in NonEmptyTexts, Y \in NonEmptyTexts :
               rInput = ShapeBare(X, Y) => rOutput = <<X, Y>>

\* C10 amended: as above, except that the bare array [X, Y] yields those of
\* X, Y that are at least 10 characters long, in order.
C10_ShapesResolve ==
    rDone =>
        /\ KeyedShapesResolve
        /\ \A X \in NonEmptyTexts, Y \in NonEmptyTexts :
               rInput = ShapeBare(X, Y) =>
                   rOutput = SelectSeq(<<X, Y>>, LAMBDA s : Len(s) >= 10)

\* C10 witness: a bare array of two long texts resolved to both, in order.
C10_Witness ==
    /\ rDone
    /\ rInput = ShapeBare("asset-00011", "asset00010")
    /\ rOutput = <<"asset-00011", "asset00010">>

(***************************************************************************)
(* The Coordinator's calls in flight and its reset (Spec)                  *)
(***************************************************************************)
\* C2: at most one analyze call is outstanding in every reachable state.
C2_OneAnalyzeOutstanding == Cardinality(pendingAnalyzes) <= 1

\* C3: at most one upload call is outstanding in every reachable state.
C3_OneUploadOutstanding == Cardinality(pendingUploads) <= 1

\* Every held datum is cleared and both in-flight flags are false.
Cleared ==
    /\ file = JNull
    /\ assetIds = <<>>
    /\ insights = JNull
    /\ pdfUrl = JNull
    /\ error = JNull
    /\ fileError = JNull
    /\ sessionId = JNull
    /\ ~uploading
    /\ ~analyzing

\* C4: Reset, from any state, leaves the Coordinator in Idle with every held
\* datum cleared and the uploading and analyzing flags false.
C4_ResetClears == lastOp = "reset" => Cleared

\* C4 witness: Reset ran while an analyze call and a session were live.
C4_Witness ==
    lastOp = "reset" /\ pendingAnalyzes # {} /\ nUploads >= 1 /\ Cleared

\* C5: after a Reset and until a new file is selected, the completion of a call
\* issued before the Reset changes none of the held data.
C5_NoStaleWrites ==
    sinceReset =>
        /\ assetIds = <<>>
        /\ insights = JNull
        /\ pdfUrl = JNull
        /\ error = JNull
        /\ fileError = JNull
        /\ sessionId = JNull

\* C6: when an analyze call starts, the held asset-ID list is non-empty, no
\* upload call is outstanding and no other analyze call is outstanding.
C6_AnalyzeOnlyFromUploadReady ==
    lastOp \in {"analyze", "retry"} =>
        /\ Len(assetIds) > 0
        /\ pendingUploads = {}
        /\ Cardinality(pendingAnalyzes) = 1

(***************************************************************************)
(* deepExtractAssetIds: duplicates, depth bound, short texts, totality     *)
(* (SpecResolve)                                                           *)
(***************************************************************************)
\* C11: the list resolve returns contains no identifier twice.
C11_NoDuplicates ==
    rDone => \A i \in 1..Len(rOutput), j \in 1..Len(rOutput) :
                 i # j => rOutput[i] # rOutput[j]

\* C12 as stated: in a response nested 15 levels deep an identifier only at
\* depth 12 is found, and one only at depth 11 is not.
C12_Original ==
    rDone =>
        /\ rInput = DeepAt(12) => rOutput = <<"asset00010">>
        /\ rInput = DeepAt(11) => rOutput = <<>>

\* C12 amended: in a response nested 15 levels deep (the top-level value is
\* level 0) an identifier held under a known key of the level-n mapping is
\* found iff n <= 10.
C12_DepthBoundary ==
    rDone =>
        \A d \in 0..NestLevels :
            rInput = DeepAt(d) =>
                rOutput = IF d <= 10 THEN <<"asset00010">> ELSE <<>>

\* C12 witness: the identifier at level 10 was found in a 15-level response.
C12_Witness ==
    rDone /\ NestLevels >= 15 /\ rInput = DeepAt(10) /\ rOutput = <<"asset00010">>

IdKeySet == {idKeys[k] : k \in 1..Len(idKeys)}

RECURSIVE KeyedOccurs(_, _)
\* The text s occurs in v as the value of a known key, or as an element of a
\* sequence that is the value of a known key.
KeyedOccurs(v, s) ==
    CASE v.t = "obj" ->
             \E i \in 1..Len(v.keys) :
                 \/ /\ v.keys[i] \in IdKeySet
                    /\ \/ v.vals[i] = JStr(s)
                       \/ /\ v.vals[i].t = "arr"
                          /\ \E j \in 1..Len(v.vals[i].items) : v.vals[i].items[j] = JStr(s)
                 \/ KeyedOccurs(v.vals[i], s)
      [] v.t = "arr" -> \E j \in 1..Len(v.items) : KeyedOccurs(v.items[j], s)
      [] OTHER -> FALSE

Returned(s) == \E i \in 1..Len(rOutput) : rOutput[i] = s

\* C13: a text shorter than 10 characters that occurs only as a bare element
\* of sequences that are not the value of a known key is not returned.
C13_ShortBareTextsExcluded ==
    rDone =>
        \A s \in Texts :
            (Len(s) < 10 /\ ~KeyedOccurs(rInput, s)) => ~Returned(s)

\* C13 witness: of a 9-character and a 10-character bare element, only the
\* longer was returned.
C13_Witness ==
    /\ rDone
    /\ rInput = ShapeBare("id9chars_", "asset00010")
    /\ rOutput = <<"asset00010">>

RECURSIVE TextFree(_)
\* v holds no text anywhere.
TextFree(v) ==
    CASE v.t = "str" -> FALSE
      [] v.t = "arr" -> \A j \in 1..Len(v.items) : TextFree(v.items[j])
      [] v.t = "obj" -> \A i \in 1..Len(v.vals) : TextFree(v.vals[i])
      [] OTHER -> TRUE

\* C14: for every input value resolve returns, without raising, a sequence of
\* texts; it is empty when the value is a scalar or holds no text.
C14_NeverRaises ==
    /\ ~rDone => ENABLED Resolve
    /\ rDone =>
           /\ ~rRaised
           /\ DOMAIN rOutput = 1..Len(rOutput)
           /\ \A i \in 1..Len(rOutput) : rOutput[i] \in STRING
           /\ (TextFree(rInput) \/ rInput.t \notin {"arr", "obj"}) => rOutput = <<>>

\* C14 witness: resolve was called on null and returned the empty sequence.
C14_Witness == rDone /\ rInput = JNull /\ rOutput = <<>> /\ ~rRaised

(***************************************************************************)
(* The upload endpoint's status codes (SpecPost)                           *)
(***************************************************************************)
\* C15: POST returns 200 whenever the final upstream response is 2xx, 400 when
\* the request carries no files, 500 when the API key is missing or an
\* exception is caught, and the upstream's status when the final upstream
\* response is non-2xx.
C15_StatusCodes ==
    pc = "done" =>
        /\ ~apiKeySet => resp.status = 500
        /\ (apiKeySet /\ calls = <<>> /\ resp.error # JStr("formData failed"))
               => (nFiles = 0 /\ resp.status = 400)
        /\ (apiKeySet /\ calls = <<>> /\ resp.error = JStr("formData failed"))
               => resp.status = 500
        /\ (Len(outcomes) >= 1 /\ LastOutcome.kind = "throw") => resp.status = 500
        /\ (Len(outcomes) >= 1 /\ LastOutcome.kind = "response") =>
               resp.status = IF Ok(LastOutcome.status) THEN 200 ELSE LastOutcome.status

\* C16: without a configured API key POST makes no upstream call and returns
\* 500 with the error 'LYZR_API_KEY not configured on server', whatever the
\* request holds.
C16_MissingKeyIsFatal ==
    ~apiKeySet =>
        /\ calls = <<>>
        /\ outcomes = <<>>
        /\ pc \in {"ready", "done"}
        /\ pc = "done" =>
               /\ resp.status = 500
               /\ resp.error = JStr("LYZR_API_KEY not configured on server")
               /\ ~resp.success

\* C16 witness: a request with files was refused for the missing key.
C16_Witness ==
    pc = "done" /\ ~apiKeySet /\ nFiles > 0 /\ resp.status = 500 /\ calls = <<>>

(***************************************************************************)
(* The completion of an analyze call (Spec, SpecInsights)                  *)
(***************************************************************************)
\* C17: when an analyze call completes with success false, insights is null, the
\* report URL is null, and the error is raw.error if present, else
\* raw.response.message if present, else the generic message.
C17_FailureHoldsNoInsights ==
    [][\A call \in pendingAnalyzes : \A result \in AgentResults :
           (AnalyzeResolves(call, result) /\ ~result.success) =>
               /\ insights' = JNull
               /\ pdfUrl' = JNull
               /\ error' = IF result.error.t = "str" THEN result.error
                            ELSE IF result.message.t = "str" THEN result.message
                            ELSE JStr("Analysis failed. Please try again.")]_vars

EmptyLists(view) ==
    /\ view.key_findings = <<>>
    /\ view.data_patterns = <<>>
    /\ view.anomalies = <<>>
    /\ view.recommendations = <<>>
    /\ view.key_metrics = <<>>

\* C18: a successful response whose result is a text that does not parse as JSON
\* is displayed with that text, verbatim, as executive_summary and with
\* key_findings, data_patterns, anomalies, recommendations and
\* statistics.key_metrics each empty.
C18_TextBecomesSummary ==
    [][\A call \in pendingAnalyzes : \A result \in InsightInputs :
           (/\ AnalyzeResolves(call, result)
            /\ result.success
            /\ result.result.t = "str"
            /\ ~ParseJson(result.result.s).ok) =>
               /\ Displayed(insights')
               /\ ~RenderRaises(insights')
               /\ InsightsView(insights').executive_summary = result.result
               /\ EmptyLists(InsightsView(insights'))]_vars

\* C18 witness: the text "not json" came back and is held as the summary.
C18_Witness ==
    /\ lastOp = "analyzeDone"
    /\ ~analyzing
    /\ error = JNull
    /\ insights = Obj1("executive_summary", JStr("not json"))
    /\ InsightsView(insights).key_findings = <<>>

\* The field of a structured result when it is a sequence, else the empty sequence.
WellTypedList(raw, key) ==
    IF HasKey(raw, key) /\ Get(raw, key).t = "arr" THEN Get(raw, key).items ELSE <<>>

\* The text of a structured result's executive_summary when it is a text, else "".
WellTypedSummary(raw) ==
    IF HasKey(raw, "executive_summary") /\ Get(raw, "executive_summary").t = "str"
    THEN Get(raw, "executive_summary")
    ELSE JStr("")

\* C19: a successful response whose result is a structured value is displayed
\* with every well-typed field as given and with each absent or wrong-typed
\* field replaced by its default, whatever the other fields are: the empty text
\* for executive_summary, the empty sequence for a list field.
C19_FieldsDefaultIndependently ==
    [][\A call \in pendingAnalyzes : \A result \in InsightInputs :
           (/\ AnalyzeResolves(call, result)
            /\ result.success
            /\ result.result.t = "obj") =>
               /\ Displayed(insights')
               /\ ~RenderRaises(insights')
               /\ InsightsView(insights').executive_summary = WellTypedSummary(result.result)
               /\ InsightsView(insights').key_findings =
                      WellTypedList(result.result, "key_findings")
               /\ InsightsView(insights').data_patterns =
                      WellTypedList(result.result, "data_patterns")
               /\ InsightsView(insights').anomalies =
                      WellTypedList(result.result, "anomalies")
               /\ InsightsView(insights').recommendations =
                      WellTypedList(result.result, "recommendations")
               /\ InsightsView(insights').key_metrics =
                      IF HasKey(result.result, "statistics")
                         /\ Get(result.result, "statistics").t = "obj"
                      THEN WellTypedList(Get(result.result, "statistics"), "key_metrics")
                      ELSE <<>>]_vars

\* The report URL the first artifact gives: its file_url, or null.
FirstArtifactUrl(artifacts) ==
    IF artifacts.t = "arr" /\ Len(artifacts.items) > 0
    THEN IF Prop(artifacts.items[1], "file_url").t = "str"
            /\ Prop(artifacts.items[1], "file_url").s # ""
         THEN Prop(artifacts.items[1], "file_url")
         ELSE JNull
    ELSE JNull

\* C20: after an analyze call completes, the report URL held is the file_url of
\* the first element of artifact_files when that sequence is non-empty, never a
\* later element's, and is null when artifact_files is absent or empty.
C20_ReportUrlIsFirstArtifact ==
    [][\A call \in pendingAnalyzes : \A result \in AgentResults :
           AnalyzeResolves(call, result) =>
               pdfUrl' = FirstArtifactUrl(result.artifact_files)]_vars

(***************************************************************************)
(* The completion of an upload call (Spec)                                 *)
(***************************************************************************)
\* Idle: no file selected.
IdleState == file = JNull

\* UploadReady: a file is held with its asset IDs and no upload is under way.
UploadReadyState == file # JNull /\ Len(assetIds) > 0 /\ ~uploading

\* C21: when an upload call completes with success true and at least one asset
\* ID, the page is in UploadReady holding exactly the returned IDs; when it
\* completes otherwise (no IDs, success false, or the transport throws) the page
\* is in Idle, no file selected, with no asset IDs and a file error set.
C21_UploadCompletion ==
    [][\A call \in pendingUploads :
           /\ \A result \in UploadResults(call.file) :
                  UploadResolves(call, result) =>
                      IF result.success /\ Len(result.asset_ids) > 0
                      THEN UploadReadyState' /\ assetIds' = result.asset_ids
                      ELSE IdleState' /\ assetIds' = <<>> /\ fileError' # JNull
           /\ UploadRejects(call) =>
                  IdleState' /\ assetIds' = <<>> /\ fileError' # JNull]_vars

(***************************************************************************)
(* Selecting a file (Spec)                                                 *)
(***************************************************************************)
\* The last dot-separated part of a file's name, lower-cased.
LowerCasedExtension(f) ==
    LET last == f.name[Len(f.name)]
    IN  IF last \in {"csv", "CSV"} THEN "csv"
        ELSE IF last \in {"xlsx", "XLSX"} THEN "xlsx"
        ELSE IF last \in {"xls", "XLS"} THEN "xls"
        ELSE last

Accepted(f) ==
    \/ LowerCasedExtension(f) \in {"xlsx", "xls", "csv"}
    \/ f.type \in { "application/vnd.openxmlformats-officedocument.spreadsheetml.sheet",
                     "application/vnd.ms-excel", "text/csv" }

\* C22: a file is accepted iff its lower-cased extension is xlsx, xls or csv or
\* its MIME type is one of the three accepted types; selecting a file that
\* fails both checks starts no upload call, sets the file error, and leaves the
\* held file, asset IDs, insights, report URL and error as they were.
C22_LocalValidation ==
    [][\A f \in AllFiles :
           /\ Accepted(f) => ~SelectInvalidFile(f)
           /\ ~Accepted(f) => ~SelectValidFile(f)
           /\ SelectInvalidFile(f) =>
                  /\ pendingUploads' = pendingUploads
                  /\ nUploads' = nUploads
                  /\ uploading' = uploading
                  /\ fileError' # JNull
                  /\ file' = file
                  /\ assetIds' = assetIds
                  /\ insights' = insights
                  /\ pdfUrl' = pdfUrl
                  /\ error' = error]_vars

\* C22 witness: a file was rejected while a file accepted by its MIME type
\* alone, its asset IDs and its insights were held.
C22_Witness ==
    /\ lastOp = "reject"
    /\ fileError # JNull
    /\ file \in ValidFiles
    /\ file.type = "application/vnd.ms-excel"
    /\ Len(assetIds) > 0
    /\ Truthy(insights)

(***************************************************************************)
(* Analyze and Retry (Spec)                                                *)
(***************************************************************************)
\* The held file and asset IDs stay as they are and no upload call is issued.
KeepsUpload ==
    /\ file' = file
    /\ assetIds' = assetIds
    /\ pendingUploads' = pendingUploads
    /\ nUploads' = nUploads

\* C23: starting an analyze call (Analyze Data, or Retry after a failure) and
\* completing it, with either outcome, leaves the held file and asset IDs
\* unchanged and issues no upload call; the call Retry issues carries exactly
\* the asset IDs the failed attempt carried.
C23_RetryKeepsAssets ==
    [][/\ (ClickAnalyze \/ ClickRetry) => KeepsUpload
       /\ \A call \in pendingAnalyzes :
              /\ \A result \in AgentResults :
                     AnalyzeResolves(call, result) => KeepsUpload
              /\ AnalyzeRejects(call) => KeepsUpload
       /\ ClickRetry =>
              \A call \in pendingAnalyzes' \ pendingAnalyzes :
                  call.assets = failedAssets]_vars

(***************************************************************************)
(* How an analyze call ends (SpecInsights)                                 *)
(***************************************************************************)
\* Results: insights held and no error.  Failed: an error held and no insights.
ResultsState == ~Nullish(insights) /\ error = JNull
FailedState == error # JNull /\ Nullish(insights)

\* C24: an analyze call whose transport responds or throws ends Analyzing:
\* analyzing becomes false and the page is then in Results or in Failed; a
\* response with success true always gives Results.
C24_EndsInResultsOrFailed ==
    [][\A call \in pendingAnalyzes :
           /\ \A result \in InsightInputs :
                  AnalyzeResolves(call, result) =>
                      /\ ~analyzing'
                      /\ ResultsState' \/ FailedState'
                      /\ result.success => ResultsState'
           /\ AnalyzeRejects(call) => ~analyzing' /\ FailedState']_vars

C26_DeepBranchIsSkipped ==
    rDone =>
        \A d \in 0..NestLevels :
            /\ rInput = DeepAt(d) => (Returned("asset00010") <=> d <= 10)
            /\ rInput = ArrayDeepAt(d) =>
                   (~rRaised /\ rOutput = IF d <= 10 THEN <<"asset00010">> ELSE <<>>)
            /\ (d >= 1 /\ rInput = ForkAt(d)) =>
                   /\ ~rRaised
                   /\ rOutput = (IF d <= 10 THEN <<"asset00010">> ELSE <<>>)
                                    \o <<"asset-00011">>

\* C26 witness: the branch that reaches level 11 gave nothing and its sibling
\* gave its identifier.
C26_Witness ==
    rDone /\ ~rRaised /\ rInput = ForkAt(11) /\ rOutput = <<"asset-00011">>

\* The non-empty text s is the value of a known key of the mapping v, or an
\* element of a sequence that is.
TopKeyed(v, s) ==
    /\ v.t = "obj"
    /\ s # ""
    /\ \E i \in 1..Len(v.keys) :
           /\ v.keys[i] \in IdKeySet
           /\ \/ v.vals[i] = JStr(s)
              \/ /\ v.vals[i].t = "arr"
                 /\ \E j \in 1..Len(v.vals[i].items) : v.vals[i].items[j] = JStr(s)

\* C27: a mapping's nested values are searched iff the known-key pass over the
\* mapping gives no identifier: when a known key gives one, the result is
\* exactly the known-key identifiers, in the priority order of the keys, and
\* an identifier held only in the nested values is not returned.
C27_FallbackOnlyWhenNoKnownKey ==
    rDone =>
        /\ \A s \in Texts :
               ((\E k \in Texts : TopKeyed(rInput, k)) /\ ~TopKeyed(rInput, s))
                   => ~Returned(s)
        /\ \A s \in Texts : TopKeyed(rInput, s) => Returned(s)
        /\ \A v \in {JStr(""), JNum(5), JNull, JArr(<<>>)} :
               rInput = MixedAt(v) => rOutput = <<"asset-00011", "asset00010">>
        /\ \A X \in NonEmptyTexts :
               /\ rInput = MixedAt(JStr(X)) => rOutput = <<X>>
               /\ rInput = Obj1("wrap", MixedAt(JStr(X))) => rOutput = <<X>>
               /\ \A Y \in NonEmptyTexts :
                      rInput = JObj(<<"id", "asset_id", "nested">>,
                                    <<JStr(X), JArr(<<JStr(Y), JStr("")>>),
                                      Obj1("file_id", JStr("asset-00011"))>>)
                          => rOutput = <<Y, X>>

\* C27 witness: the known key gave "X" and the identifiers of the nested values
\* were left out.
C27_Witness ==
    /\ rDone
    /\ rInput = MixedAt(JStr("X"))
    /\ rOutput = <<"X">>

\* C28 as stated: every identifier returned that is not matched by a known key
\* of the top-level mapping has length >= 10.
C28_Original ==
    rDone =>
        \A i \in 1..Len(rOutput) :
            ~TopKeyed(rInput, rOutput[i]) => Len(rOutput[i]) >= 10

\* C28 amended: every identifier returned is matched by a known key of some
\* mapping of the value, at any nesting level, or is a bare text of length >= 10.
C28_BareIdsAreLong ==
    rDone =>
        \A i \in 1..Len(rOutput) :
            KeyedOccurs(rInput, rOutput[i]) \/ Len(rOutput[i]) >= 10

\* C28 witness: under the unknown key "results" the 9-character bare text was
\* left out and the 10-character one returned.
C28_Witness ==
    /\ rDone
    /\ rInput = Obj1("results", JArr(<<JStr("id9chars_"), JStr("asset00010")>>))
    /\ rOutput = <<"asset00010">>

(***************************************************************************)
(* What is held across cycles (Spec)                                       *)
(***************************************************************************)
\* The upload call issued for the held file is outstanding.
NewUploadOutstanding ==
    uploading /\ \E call \in pendingUploads : call.id = nUploads /\ call.file = file

\* No asset IDs, insights, report URL or analysis error are held.
NothingHeld ==
    /\ assetIds = <<>>
    /\ insights = JNull
    /\ pdfUrl = JNull
    /\ error = JNull

\* C29: selecting a valid file empties the asset IDs and nulls insights, report
\* URL, error and file error before the upload call is issued, and nothing of
\* the previous file is held while that upload is outstanding; starting an
\* analyze call nulls insights, report URL and error before the call is issued.
C29_CycleReplacesData ==
    [][/\ \A f \in AllFiles : SelectValidFile(f) =>
              (NewUploadOutstanding' /\ NothingHeld' /\ fileError' = JNull)
       /\ (NewUploadOutstanding /\ NewUploadOutstanding') => NothingHeld'
       /\ (ClickAnalyze \/ ClickRetry) =>
              (insights' = JNull /\ pdfUrl' = JNull /\ error' = JNull)]_vars

\* C30: a non-empty held asset-ID list belongs to the held file: a file is held
\* and the IDs are those the upload call for that file returned.
C30_AssetsBelongToFile ==
    Len(assetIds) > 0 => (file \in AllFiles /\ assetIds = AssetIdsOf(file))

(***************************************************************************)
(* What the page holds together (Spec, SpecInsights)                       *)
(***************************************************************************)
\* C31: in every reachable state of the page, insights and the analysis error
\* are not both non-null.
C31_InsightsXorError ==
    ~(~Nullish(insights) /\ error # JNull)

\* C32: in every reachable state of the page, a non-null report URL implies
\* non-null insights.
C32_ReportUrlNeedsInsights ==
    pdfUrl # JNull => ~Nullish(insights)

====
